---- MODULE Spec2Model ----
(***************************************************************************)
(* A model of bits.c: eight pure puzzle functions over 32-bit words.       *)
(*                                                                         *)
(* A word is the set of the indices of its 1 bits (bit 0 is the least      *)
(* significant, bit 31 the sign bit), so every C operator is modelled by   *)
(* what it does to the bits, at the full width of 32.                      *)
(*                                                                         *)
(* C semantics assumed (gcc/clang on a two's-complement target, which is   *)
(* what the puzzle file is written for):                                   *)
(*   - >> on int is an arithmetic shift, >> on unsigned a logical one;     *)
(*   - << on int shifts the bit pattern and drops what leaves bit 31       *)
(*     (gcc documents that it does not treat signed << as undefined);      *)
(*   - unsigned -> int conversion keeps the bit pattern;                   *)
(*   - signed + that overflows is undefined: its outcome is a free choice  *)
(*     (the ovf argument), never the wrapped sum alone.                    *)
(***************************************************************************)
EXTENDS Integers, FiniteSets

VARIABLES fn, x, y, n, uf, pc, ret, retLine, negSign, exp, frac, e, result

vars == <<fn, x, y, n, uf, pc, ret, retLine, negSign, exp, frac, e, result>>

----------------------------------------------------------------------------
(* 32-bit words and the C operators on them *)

SignBit == 31

Bits == 0..SignBit

Zero == {}

One == {0}

AllOnes == Bits

MinInt == {SignBit}

And(a, b) == a \cap b

Or(a, b) == a \cup b

Not(a) == Bits \ a

Xor(a, b) == (a \ b) \cup (b \ a)

\* a << k on a 32-bit pattern
Shl(a, k) == {i + k : i \in a} \cap Bits

\* a >> k, a unsigned: zeros come in from the left
Shr(a, k) == {i - k : i \in {j \in a : j >= k}}

\* a >> k, a signed: the sign bit is replicated
Sar(a, k) ==
  Shr(a, k) \cup (IF SignBit \in a THEN {i \in Bits : i > SignBit - k} ELSE {})

\* the carry into bit i of a + b
RECURSIVE Carry(_, _, _)
Carry(a, b, i) ==
  IF i = 0 THEN FALSE
  ELSE LET p == (i - 1) \in a
           q == (i - 1) \in b
           c == Carry(a, b, i - 1)
       IN (p /\ q) \/ (p /\ c) \/ (q /\ c)

\* a + b modulo 2^32
Add(a, b) ==
  {i \in Bits : ((i \in a) # (i \in b)) # Carry(a, b, i)}

\* does the signed sum a + b leave the range of int?
SignedOverflow(a, b) ==
  /\ (SignBit \in a) = (SignBit \in b)
  /\ (SignBit \in Add(a, b)) # (SignBit \in a)

\* a + b on int: the sum, or whatever the build makes of an overflow
AddInt(a, b, ovf) == IF SignedOverflow(a, b) THEN ovf ELSE Add(a, b)

\* !a
LNot(a) == IF a = Zero THEN One ELSE Zero

\* the value of a word with bit 31 clear
RECURSIVE Val(_)
Val(a) ==
  IF a = {} THEN 0
  ELSE LET i == CHOOSE j \in a : TRUE
       IN 2 ^ i + Val(a \ {i})

\* the word of a number in 0 .. 2^31 - 1
Word(v) == {i \in 0..(SignBit - 1) : (v \div 2 ^ i) % 2 = 1}

\* the value of a word read as a two's-complement int
IntVal(a) ==
  IF SignBit \in a
  THEN (Val(a \ {SignBit}) - 2 ^ (SignBit - 1)) - 2 ^ (SignBit - 1)
  ELSE Val(a)

----------------------------------------------------------------------------
(* The functions of bits.c *)

\* bitXor with the NOR left uncomplemented
bitXor_NorNotNegated(xx, yy) ==
  LET and == Not(And(xx, yy))
      nor == And(Not(xx), Not(yy))
  IN And(and, nor)

bitXor(xx, yy) ==
  LET and == Not(And(xx, yy))
      nor == And(Not(xx), Not(yy))
  IN And(and, Not(nor))

\* allEvenBits with the fold by 4 left out
allEvenBits_SkipFold(xx) ==
  LET x1 == And(xx, Sar(xx, 16))
      x2 == And(x1, Sar(x1, 8))
      x4 == And(x2, Sar(x2, 2))
  IN And(x4, One)

allEvenBits(xx) ==
  LET x1 == And(xx, Sar(xx, 16))
      x2 == And(x1, Sar(x1, 8))
      x3 == And(x2, Sar(x2, 4))
      x4 == And(x3, Sar(x3, 2))
  IN And(x4, One)

\* logicalShift with the mask not shifted back left by one
logicalShift_MaskNotDoubled(xx, nn) ==
  LET bitmask == Sar(And(xx, Shl(One, 31)), nn)
  IN Xor(Sar(xx, nn), bitmask)

logicalShift(xx, nn) ==
  LET bitmask == Shl(Sar(And(xx, Shl(One, 31)), nn), 1)
  IN Xor(Sar(xx, nn), bitmask)

\* logicalNeg looking at the sign of -x alone
logicalNeg_NoOr(xx, ovf) ==
  Add(Sar(AddInt(Not(xx), One, ovf), 31), One)

\* ~x + 1 overflows for x = 0x80000000; ovf is what the build yields there
logicalNeg(xx, ovf) ==
  Add(Sar(Or(xx, AddInt(Not(xx), One, ovf)), 31), One)

\* tmax with the 1 shifted to bit 30
tmax_Shift30 == Not(Shl(One, 30))

tmax == Not(Shl(One, 31))

\* twosBits with shift = ~n + 32, one short of 32 - n
twosBits_ShiftOffByOne(xx, nn) ==
  LET shift == IntVal(Add(Not(Word(nn)), Word(32)))
  IN LNot(Xor(xx, Sar(Shl(xx, shift), shift)))

twosBits(xx, nn) ==
  LET shift == IntVal(Add(Add(Not(Word(nn)), One), Word(32)))
  IN LNot(Xor(xx, Sar(Shl(xx, shift), shift)))

\* a - b modulo 2^32
Sub(a, b) == Add(a, Add(Not(b), One))

ExpMask == 255

FracMask == 8388607

LeadingBit == 8388608

Bias == 127

FracWidth == 23

\* the range check one exponent late
TooBig_OneLate == 31 + 1

TooBig == 31

\* negSign = uf & (1 << 31)
SignField(u) == And(u, Shl(One, 31))

\* the exponent field masked with 0x7F
ExpField_NarrowMask(u) == And(Shr(u, FracWidth), Word(127))

\* exp = (uf >> 23) & 0xFF, uf unsigned
ExpField(u) == And(Shr(u, FracWidth), Word(ExpMask))

\* frac = uf & 0x7FFFFF
FracField(u) == And(u, Word(FracMask))

\* the bias taken as 126
Unbias_OffByOne(ex) == Sub(ex, Word(Bias - 1))

\* e = exp - 127
Unbias(ex) == Sub(ex, Word(Bias))

\* result = frac | 0x800000
Significand(fr) == Or(fr, Word(LeadingBit))

\* the alignment rounding to nearest instead of truncating
Align_Rounds(res, ee) ==
  IF IntVal(ee) >= FracWidth
  THEN Shl(res, IntVal(ee) - FracWidth)
  ELSE Sar(Add(res, Shl(One, FracWidth - IntVal(ee) - 1)), FracWidth - IntVal(ee))

\* if (e > 23) result <<= (e - 23); else result >>= (23 - e);
Align(res, ee) ==
  IF IntVal(ee) > FracWidth
  THEN Shl(res, IntVal(ee) - FracWidth)
  ELSE Sar(res, FracWidth - IntVal(ee))

\* ~result + 1
Negate(res) == Add(Not(res), One)

----------------------------------------------------------------------------
(* The calls the model makes: every function on a bounded set of inputs *)

EdgeBits == 2

EvenMask == {i \in Bits : i % 2 = 0}

OddMask == {i \in Bits : i % 2 = 1}

Fills == {Zero, AllOnes, EvenMask, OddMask}

\* the lowest EdgeBits bits of a field that starts at bit lo
LowEdge(lo) == lo..(lo + EdgeBits - 1)

\* the highest EdgeBits bits of a field that ends at bit hi
HighEdge(hi) == (hi - EdgeBits + 1)..hi

\* a fill pattern over lo..hi with every choice of the bits of edge
Patterns(lo, hi, edge) ==
  {((f \cap (lo..hi)) \ edge) \cup s : f \in Fills, s \in SUBSET edge}

\* a fill pattern with one bit flipped: single bits, single holes
FlipOne == {Xor(f, {i}) : f \in Fills, i \in Bits}

\* 2^k - 1 and -2^k
Runs == {0..(k - 1) : k \in 0..32} \cup {k..SignBit : k \in 0..32}

\* the arguments of the examples in the comments of bits.c
Examples ==
  {Word(3), Word(4), Word(5), Not(Word(3)), Word(1431655765),
   Not(One), MinInt \cup Word(124076833)}

EdgeWords == Patterns(0, SignBit, LowEdge(0) \cup HighEdge(SignBit)) \cup Examples

Words == EdgeWords \cup FlipOne \cup Runs

ShiftCounts == 0..31

Widths == 1..32

Fractions ==
  Patterns(0, FracWidth - 1, LowEdge(0))
    \cup Patterns(0, FracWidth - 1, HighEdge(FracWidth - 1))

\* every sign, every exponent field, a sample of the fractions
Floats ==
  {s \cup Shl(Word(ex), FracWidth) \cup fr :
     s \in {Zero, MinInt}, ex \in 0..ExpMask, fr \in Fractions}

\* what a build may leave in the result of an overflowing signed +
Outcomes == {Zero, One, AllOnes, MinInt, tmax}

NoLocals ==
  /\ negSign = Zero /\ exp = Zero /\ frac = Zero /\ e = Zero /\ result = Zero

Init ==
  /\ pc = "call" /\ ret = Zero /\ retLine = 0
  /\ NoLocals
  /\ \/ fn = "bitXor" /\ x \in EdgeWords /\ y \in EdgeWords
        /\ n = 0 /\ uf = Zero
     \/ fn \in {"allEvenBits", "logicalNeg"} /\ x \in Words
        /\ y = Zero /\ n = 0 /\ uf = Zero
     \/ fn = "logicalShift" /\ x \in Words /\ n \in ShiftCounts
        /\ y = Zero /\ uf = Zero
     \/ fn = "twosBits" /\ x \in Words /\ n \in Widths
        /\ y = Zero /\ uf = Zero
     \/ fn = "tmax" /\ x = Zero /\ y = Zero /\ n = 0 /\ uf = Zero
     \/ fn = "floatFloat2Int" /\ uf \in Floats
        /\ x = Zero /\ y = Zero /\ n = 0

Return(v, line) ==
  /\ ret' = v
  /\ retLine' = line
  /\ pc' = "done"
  /\ UNCHANGED <<fn, x, y, n, uf>>

Locals == <<negSign, exp, frac, e, result>>

Call_bitXor ==
  /\ pc = "call" /\ fn = "bitXor"
  /\ Return(bitXor(x, y), 23)
  /\ UNCHANGED Locals

Call_allEvenBits ==
  /\ pc = "call" /\ fn = "allEvenBits"
  /\ Return(allEvenBits(x), 43)
  /\ UNCHANGED Locals

Call_logicalShift ==
  /\ pc = "call" /\ fn = "logicalShift"
  /\ Return(logicalShift(x, n), 61)
  /\ UNCHANGED Locals

Call_logicalNeg ==
  /\ pc = "call" /\ fn = "logicalNeg"
  /\ \E ovf \in Outcomes \cup {Add(Not(x), One)} :
       Return(logicalNeg(x, ovf), 82)
  /\ UNCHANGED Locals

Call_tmax ==
  /\ pc = "call" /\ fn = "tmax"
  /\ Return(tmax, 93)
  /\ UNCHANGED Locals

Call_twosBits ==
  /\ pc = "call" /\ fn = "twosBits"
  /\ Return(twosBits(x, n), 115)
  /\ UNCHANGED Locals

\* floatFloat2Int, lines 145-156: zero, the fields, NaN/infinity, denormals
Float_Decode ==
  /\ pc = "call" /\ fn = "floatFloat2Int"
  /\ IF uf = Zero
     THEN Return(Zero, 145) /\ UNCHANGED Locals
     ELSE /\ negSign' = SignField(uf)
          /\ exp' = ExpField(uf)
          /\ frac' = FracField(uf)
          /\ UNCHANGED <<e, result>>
          /\ IF exp' = Word(ExpMask) THEN Return(MinInt, 153)
             ELSE IF exp' = Zero THEN Return(Zero, 156)
             ELSE /\ pc' = "normalized"
                  /\ UNCHANGED <<fn, x, y, n, uf, ret, retLine>>

\* lines 159-169: the exponent, the significand, the range checks, the shift
Float_Align ==
  /\ pc = "normalized"
  /\ e' = Unbias(exp)
  /\ UNCHANGED <<negSign, exp, frac>>
  /\ IF IntVal(e') < 0
     THEN result' = Significand(frac) /\ Return(Zero, 164)
     ELSE IF IntVal(e') >= TooBig
     THEN result' = Significand(frac) /\ Return(MinInt, 165)
     ELSE /\ result' = Align(Significand(frac), e')
          /\ pc' = "aligned"
          /\ UNCHANGED <<fn, x, y, n, uf, ret, retLine>>

\* lines 172-176: the sign, the overflow guard
Float_Return ==
  /\ pc = "aligned"
  /\ UNCHANGED Locals
  /\ IF negSign # Zero THEN Return(Negate(result), 172)
     ELSE IF Sar(result, 31) # Zero THEN Return(MinInt, 175)
     ELSE Return(result, 176)

Next ==
  \/ Call_bitXor
  \/ Call_allEvenBits
  \/ Call_logicalShift
  \/ Call_logicalNeg
  \/ Call_tmax
  \/ Call_twosBits
  \/ Float_Decode
  \/ Float_Align
  \/ Float_Return

Spec == Init /\ [][Next]_vars

----------------------------------------------------------------------------
(* What the properties below measure the results against *)

Returned(f) == pc = "done" /\ fn = f

\* the biased exponent field of a float, bits 30..23, as a number
BiasedExp(u) == Val({i - 23 : i \in u \cap (23..30)})

\* the 24-bit significand of a normalized float, as a number
Mantissa(u) == Val(u \cap (0..22)) + 2 ^ 23

\* the magnitude of a float of unbiased exponent 0..30, truncated
Truncated(u) ==
  LET ee == BiasedExp(u) - 127
  IN IF ee >= 23 THEN Mantissa(u) * 2 ^ (ee - 23)
     ELSE Mantissa(u) \div 2 ^ (23 - ee)

\* the low w bits of a word, sign-extended from bit w - 1
SignExtend(a, w) ==
  (a \cap (0..(w - 1))) \cup (IF (w - 1) \in a THEN w..SignBit ELSE {})

\* -2^(w-1) <= a <= 2^(w-1) - 1, a read as an int
FitsIn(a, w) ==
  \/ w = 32
  \/ /\ -(2 ^ (w - 1)) <= IntVal(a)
     /\ IntVal(a) <= 2 ^ (w - 1) - 1

----------------------------------------------------------------------------
(* The properties *)

\* C1: for a float of biased exponent 127..157 (magnitude in [1, 2^31)),
\* floatFloat2Int returns the value truncated toward zero:
\* floor(m * 2^(e-23)) for a clear sign bit, its negation for a set one.
C1_TruncatesTowardZero ==
  (Returned("floatFloat2Int") /\ BiasedExp(uf) \in 127..157) =>
    IntVal(ret) = (IF SignBit \in uf THEN -Truncated(uf) ELSE Truncated(uf))

\* -1.5f = 0xBFC00000 has been converted to -1
C1_Witness ==
  /\ Returned("floatFloat2Int")
  /\ uf = {31} \cup (23..29) \cup {22}
  /\ ret = AllOnes

\* C2: for n in 0..31, logicalShift(x, n) is x shifted right as an unsigned
\* word: bit i of the result is bit i + n of x, the top n bits are 0, and
\* logicalShift(x, 0) = x, for negative x too.
C2_LogicalShift ==
  (Returned("logicalShift") /\ n \in 0..31) =>
    /\ ret = {i \in Bits : (i + n) \in x}
    /\ ret \cap {i \in Bits : i > SignBit - n} = {}
    /\ n = 0 => ret = x

\* logicalShift(0x87654321, 4) has returned 0x08765432
C2_Witness ==
  /\ Returned("logicalShift")
  /\ x = MinInt \cup Word(124076833) /\ n = 4
  /\ ret = Word(141972530)

\* C3: for n in 1..32, twosBits(x, n) is 1 if sign-extending the low n bits
\* of x gives x back, which is when -2^(n-1) <= x <= 2^(n-1) - 1, and 0
\* otherwise; twosBits(x, 32) = 1 for every x.
C3_TwosBits ==
  (Returned("twosBits") /\ n \in 1..32) =>
    /\ ret = (IF SignExtend(x, n) = x THEN One ELSE Zero)
    /\ (ret = One) <=> FitsIn(x, n)
    /\ n = 32 => ret = One

\* twosBits(5, 3) has returned 0
C3_Witness ==
  /\ Returned("twosBits")
  /\ x = Word(5) /\ n = 3
  /\ ret = Zero

\* C4: for a float whose exponent field is 0xFF, or whose unbiased exponent
\* is at least 31, floatFloat2Int returns 0x80000000 whatever the sign and
\* the fraction.
C4_OutOfRange ==
  (Returned("floatFloat2Int")
     /\ (BiasedExp(uf) = 255 \/ BiasedExp(uf) - 127 >= 31)) =>
    ret = MinInt

\* a negative float of unbiased exponent 31 and a nonzero fraction has been
\* converted
C4_Witness ==
  /\ Returned("floatFloat2Int")
  /\ BiasedExp(uf) = 158 /\ SignBit \in uf /\ uf \cap (0..22) # {}
  /\ ret = MinInt

\* C5: logicalNeg(x) is 1 for x = 0 and 0 for every other x, 0x80000000
\* included; it is never anything but 0 or 1.
C5_LogicalNeg ==
  Returned("logicalNeg") =>
    /\ ret = (IF x = Zero THEN One ELSE Zero)
    /\ ret \in {Zero, One}

\* logicalNeg(0x80000000) has returned 0
C5_Witness ==
  /\ Returned("logicalNeg")
  /\ x = MinInt
  /\ ret = Zero

\* C6: allEvenBits(x) is 1 if every even-indexed bit of x is 1 and 0
\* otherwise, whatever the odd-indexed bits and the sign bit are.
C6_AllEvenBits ==
  Returned("allEvenBits") =>
    ret = (IF \A i \in Bits : i % 2 = 0 => i \in x THEN One ELSE Zero)

\* allEvenBits of a negative word with one even bit missing has returned 0
C6_Witness ==
  /\ Returned("allEvenBits")
  /\ x = AllOnes \ {20}
  /\ ret = Zero

\* C7: bitXor(x, y) is the bitwise exclusive-or of x and y.
C7_BitXor ==
  Returned("bitXor") =>
    ret = {i \in Bits : (i \in x) # (i \in y)}

\* bitXor(4, 5) has returned 1
C7_Witness ==
  /\ Returned("bitXor")
  /\ x = Word(4) /\ y = Word(5)
  /\ ret = One

\* C8: tmax() returns 0x7FFFFFFF, and that plus 1, in 32-bit wrapping
\* arithmetic, is 0x80000000, the smallest int.
C8_Tmax ==
  Returned("tmax") =>
    /\ IntVal(ret) = 2147483647
    /\ Add(ret, One) = MinInt
    /\ IntVal(Add(ret, One)) = -2147483647 - 1
    /\ \A w \in Words : IntVal(Add(ret, One)) <= IntVal(w)

\* tmax() has returned
C8_Witness ==
  /\ Returned("tmax")
  /\ ret = Bits \ {SignBit}
  /\ retLine = 93

\* C9: for a float of magnitude below 1 (zero, exponent field 0, exponent
\* field 1..126), of either sign, floatFloat2Int returns 0.
C9_BelowOne ==
  (Returned("floatFloat2Int") /\ BiasedExp(uf) < 127) =>
    ret = Zero

\* a negative float of exponent field 126 and fraction all ones, the
\* largest magnitude below 1, has been converted
C9_Witness ==
  /\ Returned("floatFloat2Int")
  /\ uf = {31} \cup (24..29) \cup (0..22)
  /\ retLine = 164
  /\ ret = Zero

\* C10: the magnitude floatFloat2Int has aligned is in 1 .. 2^31 - 1, so
\* the overflow guard of line 175 is never taken, and the function returns
\* 0x80000000 exactly when the exponent field is 0xFF or the unbiased
\* exponent is at least 31.
C10_GuardNeverTaken ==
  /\ pc = "aligned" =>
       /\ SignBit \notin result
       /\ IntVal(result) >= 1
       /\ IntVal(result) <= 2147483647
  /\ retLine # 175
  /\ Returned("floatFloat2Int") =>
       (ret = MinInt <=> (BiasedExp(uf) = 255 \/ BiasedExp(uf) - 127 >= 31))

\* the largest float below 2^31, 0x4EFFFFFF, has been aligned to 0x7FFFFF80
C10_Witness ==
  /\ pc = "aligned"
  /\ uf = {30, 27, 26, 25, 23} \cup (0..22)
  /\ result = (7..30)

====
